---- MODULE Spec2Model ----
(***************************************************************************)
(* Model of the Obsidian MCP boilerplate server: the tools registered by   *)
(* tools/navigation.py, tools/custom.py and tools/time.py, run against a   *)
(* small filesystem and a clock.                                           *)
(* A tool call is a sequence of steps, one per awaited filesystem access.  *)
(***************************************************************************)
EXTENDS Integers, Sequences, FiniteSets, TLC

VARIABLES fs, pc, op, found, content, res, prev, parked

vars == <<fs, pc, op, found, content, res, prev, parked>>

(***************************************************************************)
(* Bounds of the model.                                                    *)
(***************************************************************************)
MaxMtime == 1
TicksPerSecond == 2

(***************************************************************************)
(* Names and paths.  A name is a sequence of characters, a path a sequence *)
(* of names starting at the filesystem root.                               *)
(***************************************************************************)
CLAUDE_MD_NAME == <<"C", "L", "A", "U", "D", "E", ".", "m", "d">>
VaultName == <<"v">>
TARGET_FOLDER == <<"T">>
FileA == <<"a", ".", "m", "d">>
SubName == <<"s", "u", "b">>
MissingName == <<"z", ".", "m", "d">>
DotDot == <<".", ".">>

VAULT_PATH == <<VaultName>>
TARGET_FOLDER_PATH == VAULT_PATH \o <<TARGET_FOLDER>>
VAULT_CLAUDE_MD == VAULT_PATH \o <<CLAUDE_MD_NAME>>
TARGET_CLAUDE_MD == TARGET_FOLDER_PATH \o <<CLAUDE_MD_NAME>>

FilePathA == TARGET_FOLDER_PATH \o <<FileA>>
SubPath == TARGET_FOLDER_PATH \o <<SubName>>
SubClaudeMd == SubPath \o <<CLAUDE_MD_NAME>>

NodePaths ==
  {VAULT_PATH, VAULT_CLAUDE_MD, TARGET_FOLDER_PATH, TARGET_CLAUDE_MD,
   FilePathA, SubPath, SubClaudeMd}

(***************************************************************************)
(* Filesystem nodes.  A file holds bytes and a modification time in ticks; *)
(* a directory may be unlistable (scandir fails on it).                    *)
(***************************************************************************)
Contents == {<<"a">>, <<"b", "CR", "LF">>, <<"BAD">>}
MTimes == 0..MaxMtime

NoNode == [kind |-> "none"]
DirNode(ok) == [kind |-> "dir", ok |-> ok]
FileNode(b, t) == [kind |-> "file", bytes |-> b, mtime |-> t]

FileNodes == {FileNode(b, t) : b \in Contents, t \in MTimes}

MarkerNodes == {FileNode(b, 0) : b \in Contents}

NodesAt(p) ==
  IF p = VAULT_PATH THEN {NoNode, DirNode(TRUE)}
  ELSE IF p = TARGET_FOLDER_PATH
       THEN {NoNode, FileNode(<<"a">>, 0), DirNode(TRUE), DirNode(FALSE)}
  ELSE IF p = SubPath THEN {NoNode, DirNode(TRUE)}
  ELSE IF p = FilePathA THEN {NoNode, DirNode(TRUE)} \cup FileNodes
  ELSE {NoNode, DirNode(TRUE)} \cup MarkerNodes

Parent(p) == IF p = <<>> THEN <<>> ELSE SubSeq(p, 1, Len(p) - 1)

NodeAt(f, p) ==
  IF p = <<>> THEN DirNode(TRUE)
  ELSE IF p \in DOMAIN f THEN f[p] ELSE NoNode

WellFormed(f) ==
  \A p \in DOMAIN f : f[p].kind # "none" => NodeAt(f, Parent(p)).kind = "dir"

(***************************************************************************)
(* Path resolution as the operating system does it: every inner segment    *)
(* must be a directory, ".." steps to the parent.                          *)
(***************************************************************************)
RECURSIVE Resolve(_, _, _)
Resolve(f, cur, rest) ==
  IF rest = <<>> THEN NodeAt(f, cur)
  ELSE IF NodeAt(f, cur).kind # "dir" THEN NoNode
  ELSE IF Head(rest) = DotDot THEN Resolve(f, Parent(cur), Tail(rest))
  ELSE Resolve(f, Append(cur, Head(rest)), Tail(rest))

Lookup(f, p) == Resolve(f, <<>>, p)

Exists(f, p) == Lookup(f, p).kind # "none"

(***************************************************************************)
(* read_text(encoding="utf-8"): decoding fails on an invalid byte, and     *)
(* text mode translates CR LF and CR to LF.                                *)
(***************************************************************************)
RECURSIVE TranslateNewlines(_)
TranslateNewlines(bs) ==
  IF bs = <<>> THEN <<>>
  ELSE IF Head(bs) = "CR"
       THEN IF Len(bs) >= 2 /\ bs[2] = "LF"
            THEN <<"LF">> \o TranslateNewlines(SubSeq(bs, 3, Len(bs)))
            ELSE <<"LF">> \o TranslateNewlines(Tail(bs))
  ELSE <<Head(bs)>> \o TranslateNewlines(Tail(bs))

Decodable(bs) == \A i \in 1..Len(bs) : bs[i] # "BAD"

Msg(text, mentions) == [text |-> text, mentions |-> mentions]

ReadText(f, p) ==
  LET n == Lookup(f, p) IN
  IF n.kind = "none"
  THEN [ok |-> FALSE, exc |-> "FileNotFoundError",
        msg |-> Msg("[Errno 2] No such file or directory", {p})]
  ELSE IF n.kind = "dir"
  THEN [ok |-> FALSE, exc |-> "IsADirectoryError",
        msg |-> Msg("[Errno 21] Is a directory", {p})]
  ELSE IF ~Decodable(n.bytes)
  THEN [ok |-> FALSE, exc |-> "UnicodeDecodeError",
        msg |-> Msg("'utf-8' codec can't decode byte", {})]
  ELSE [ok |-> TRUE, text |-> TranslateNewlines(n.bytes)]

(***************************************************************************)
(* Results of a tool call.                                                 *)
(***************************************************************************)
NoResult == [status |-> "none"]

ToolError(outer, exc, cause) ==
  [status |-> "error", outer |-> outer, exc |-> exc, cause |-> cause]

NavResult(path, text, loaded, message) ==
  [status |-> "ok", path |-> path, content |-> text, loaded |-> loaded,
   message |-> message]

(***************************************************************************)
(* A tool is a coroutine: pc, op, found, content and res are its locals.   *)
(* The locals of a second call that is suspended at an await are kept in   *)
(* parked.                                                                 *)
(***************************************************************************)
IdleContext ==
  [pc |-> "idle", op |-> [name |-> "none"], found |-> FALSE,
   content |-> <<>>, res |-> NoResult]

(***************************************************************************)
(* State after construction: any well-formed filesystem, no call in flight.*)
(***************************************************************************)
MakeFs(v, vm, t, tm, a, sb, sm) ==
  [p \in NodePaths |->
     IF p = VAULT_PATH THEN v
     ELSE IF p = VAULT_CLAUDE_MD THEN vm
     ELSE IF p = TARGET_FOLDER_PATH THEN t
     ELSE IF p = TARGET_CLAUDE_MD THEN tm
     ELSE IF p = FilePathA THEN a
     ELSE IF p = SubPath THEN sb
     ELSE sm]

Init ==
  /\ \E v \in NodesAt(VAULT_PATH), vm \in NodesAt(VAULT_CLAUDE_MD),
        t \in NodesAt(TARGET_FOLDER_PATH), tm \in NodesAt(TARGET_CLAUDE_MD),
        a \in NodesAt(FilePathA), sb \in NodesAt(SubPath),
        sm \in NodesAt(SubClaudeMd) :
       /\ fs = MakeFs(v, vm, t, tm, a, sb, sm)
       /\ WellFormed(fs)
  /\ pc = "idle"
  /\ op = [name |-> "none"]
  /\ found = FALSE
  /\ content = <<>>
  /\ res = NoResult
  /\ prev = [op |-> [name |-> "none"], res |-> NoResult]
  /\ parked = IdleContext

(***************************************************************************)
(* Inputs of the tools.                                                    *)
(***************************************************************************)
Subdirectories ==
  {<<TARGET_FOLDER>>, <<TARGET_FOLDER, SubName>>, <<TARGET_FOLDER, FileA>>,
   <<MissingName>>}

Filenames ==
  {<<FileA>>, <<CLAUDE_MD_NAME>>, <<SubName>>, <<MissingName>>,
   <<DotDot, CLAUDE_MD_NAME>>}

Extensions == {<<>>, <<"m", "d">>, <<"M", "D">>, <<"t", "x", "t">>}

Start(o, label) ==
  /\ pc = "idle"
  /\ pc' = label
  /\ op' = o
  /\ found' = FALSE
  /\ content' = <<>>
  /\ res' = NoResult
  /\ UNCHANGED <<fs, parked>>

Finish(r) ==
  /\ pc' = "done"
  /\ res' = r
  /\ UNCHANGED <<fs, op, found, content, prev, parked>>

(***************************************************************************)
(* load_navigation_context                                                 *)
(***************************************************************************)
LoadNavigationContextFailed(exc, cause) ==
  ToolError(Msg("Failed to load navigation context", {}), exc, cause)

\* mutant: absence answered the way the target-folder loader answers it
LoadNavigationContextAbsentMutant ==
  NavResult(VAULT_CLAUDE_MD, <<>>, FALSE,
            Msg("No CLAUDE.md found in vault", {VAULT_PATH}))

LoadNavigationContextAbsent ==
  LoadNavigationContextFailed(
    "ToolError", Msg("Navigation file not found at", {VAULT_CLAUDE_MD}))

LoadNavigationContextLoaded(text) ==
  NavResult(VAULT_CLAUDE_MD, text, TRUE,
            Msg("Top-level navigation context loaded successfully", {}))

LoadNavigationContextCall ==
  /\ Start([name |-> "load_navigation_context"], "lnc_exists")
  /\ prev' = [op |-> [name |-> "none"], res |-> NoResult]

LoadNavigationContextExists ==
  /\ pc = "lnc_exists"
  /\ IF ~Exists(fs, VAULT_CLAUDE_MD)
     THEN Finish(LoadNavigationContextAbsent)
     ELSE /\ pc' = "lnc_read"
          /\ found' = TRUE
          /\ UNCHANGED <<fs, op, content, res, prev, parked>>

LoadNavigationContextRead ==
  /\ pc = "lnc_read"
  /\ LET r == ReadText(fs, VAULT_CLAUDE_MD) IN
     IF r.ok
     THEN Finish(LoadNavigationContextLoaded(r.text))
     ELSE Finish(LoadNavigationContextFailed(r.exc, r.msg))

(***************************************************************************)
(* load_target_folder_context                                              *)
(***************************************************************************)
LoadTargetFolderContextFailed(exc, cause) ==
  ToolError(Msg("Failed to load target folder context", {}), exc, cause)

\* mutant: absence answered the way the vault loader answers it
LoadTargetFolderContextAbsentMutant ==
  LoadTargetFolderContextFailed(
    "ToolError", Msg("Navigation file not found at", {TARGET_CLAUDE_MD}))

LoadTargetFolderContextAbsent ==
  NavResult(TARGET_CLAUDE_MD, <<>>, FALSE,
            Msg("No CLAUDE.md found in target folder", {TARGET_FOLDER_PATH}))

LoadTargetFolderContextLoaded(text) ==
  NavResult(TARGET_CLAUDE_MD, text, TRUE,
            Msg("Target folder navigation loaded successfully", {}))

LoadTargetFolderContextCall ==
  /\ Start([name |-> "load_target_folder_context"], "ltc_exists")
  /\ prev' = [op |-> [name |-> "none"], res |-> NoResult]

LoadTargetFolderContextExists ==
  /\ pc = "ltc_exists"
  /\ IF ~Exists(fs, TARGET_CLAUDE_MD)
     THEN Finish(LoadTargetFolderContextAbsent)
     ELSE /\ pc' = "ltc_read"
          /\ found' = TRUE
          /\ UNCHANGED <<fs, op, content, res, prev, parked>>

LoadTargetFolderContextRead ==
  /\ pc = "ltc_read"
  /\ LET r == ReadText(fs, TARGET_CLAUDE_MD) IN
     IF r.ok
     THEN Finish(LoadTargetFolderContextLoaded(r.text))
     ELSE Finish(LoadTargetFolderContextFailed(r.exc, r.msg))

(***************************************************************************)
(* discover_subdirectory_navigation(subdirectory)                          *)
(***************************************************************************)
SubdirPath(subdirectory) == VAULT_PATH \o subdirectory
ClaudeMdPath(subdirectory) == SubdirPath(subdirectory) \o <<CLAUDE_MD_NAME>>

DiscoverFailed(exc, cause) ==
  ToolError(Msg("Failed to discover subdirectory navigation", {}), exc, cause)

DiscoverSubdirAbsent(subdirectory) ==
  DiscoverFailed("ToolError",
                 Msg("Subdirectory not found", {SubdirPath(subdirectory)}))

\* mutant: a missing marker treated like a missing subdirectory
DiscoverMarkerAbsentMutant(subdirectory) ==
  DiscoverFailed("ToolError",
                 Msg("Subdirectory not found", {SubdirPath(subdirectory)}))

DiscoverMarkerAbsent(subdirectory) ==
  NavResult(ClaudeMdPath(subdirectory), <<>>, FALSE,
            Msg("No CLAUDE.md found in", {subdirectory}))

DiscoverLoaded(subdirectory, text) ==
  NavResult(ClaudeMdPath(subdirectory), text, TRUE,
            Msg("Subdirectory navigation loaded successfully", {subdirectory}))

DiscoverSubdirectoryNavigationCall ==
  /\ \E s \in Subdirectories :
       Start([name |-> "discover_subdirectory_navigation", subdirectory |-> s],
             "dsn_exists_dir")
  /\ prev' = [op |-> [name |-> "none"], res |-> NoResult]

DiscoverSubdirectoryNavigationExistsDir ==
  /\ pc = "dsn_exists_dir"
  /\ IF ~Exists(fs, SubdirPath(op.subdirectory))
     THEN Finish(DiscoverSubdirAbsent(op.subdirectory))
     ELSE /\ pc' = "dsn_exists_md"
          /\ UNCHANGED <<fs, op, found, content, res, prev, parked>>

DiscoverSubdirectoryNavigationExistsMd ==
  /\ pc = "dsn_exists_md"
  /\ IF ~Exists(fs, ClaudeMdPath(op.subdirectory))
     THEN Finish(DiscoverMarkerAbsent(op.subdirectory))
     ELSE /\ pc' = "dsn_read"
          /\ found' = TRUE
          /\ UNCHANGED <<fs, op, content, res, prev, parked>>

DiscoverSubdirectoryNavigationRead ==
  /\ pc = "dsn_read"
  /\ LET r == ReadText(fs, ClaudeMdPath(op.subdirectory)) IN
     IF r.ok
     THEN Finish(DiscoverLoaded(op.subdirectory, r.text))
     ELSE Finish(DiscoverFailed(r.exc, r.msg))

(***************************************************************************)
(* list_navigation_files: os.walk(VAULT_PATH), top-down.  os.walk is       *)
(* called without onerror, so a directory whose scandir fails (missing,    *)
(* not a directory, unlistable) is skipped without an error.               *)
(***************************************************************************)
ROOT_LABEL == <<<<"/", " ", "(", "r", "o", "o", "t", ")">>>>

ChildPaths(f, d) ==
  {q \in DOMAIN f :
     /\ Len(q) = Len(d) + 1
     /\ SubSeq(q, 1, Len(d)) = d
     /\ f[q].kind # "none"}

RECURSIVE SetToSeq(_)
SetToSeq(S) ==
  IF S = {} THEN <<>>
  ELSE LET x == CHOOSE y \in S : TRUE IN <<x>> \o SetToSeq(S \ {x})

Scandir(f, d) ==
  LET n == NodeAt(f, d) IN
  IF n.kind = "dir" /\ n.ok
  THEN [ok |-> TRUE,
        dirs |-> {q \in ChildPaths(f, d) : f[q].kind = "dir"},
        files |-> {q[Len(q)] : q \in {c \in ChildPaths(f, d) : f[c].kind = "file"}}]
  ELSE [ok |-> FALSE]

RECURSIVE OsWalk(_, _)
RECURSIVE OsWalkEach(_, _)
OsWalk(f, top) ==
  LET sd == Scandir(f, top) IN
  IF ~sd.ok THEN <<>>
  ELSE <<[root |-> top, files |-> sd.files]>> \o OsWalkEach(f, SetToSeq(sd.dirs))

OsWalkEach(f, ds) ==
  IF ds = <<>> THEN <<>>
  ELSE OsWalk(f, Head(ds)) \o OsWalkEach(f, Tail(ds))

Relpath(root, start) == SubSeq(root, Len(start) + 1, Len(root))

RECURSIVE CollectNavigation(_)
CollectNavigation(walk) ==
  IF walk = <<>> THEN <<>>
  ELSE LET e == Head(walk)
           rel == Relpath(e.root, VAULT_PATH)
       IN (IF CLAUDE_MD_NAME \in e.files
           THEN <<IF rel = <<>> THEN ROOT_LABEL ELSE rel>>
           ELSE <<>>) \o CollectNavigation(Tail(walk))

WalkDirectory(f) == CollectNavigation(OsWalk(f, VAULT_PATH))

ListNavigationResult(files) ==
  [status |-> "ok", available_navigation |-> files, total_count |-> Len(files),
   vault_path |-> VAULT_PATH, target_folder |-> TARGET_FOLDER_PATH]

ListNavigationFilesCall ==
  /\ Start([name |-> "list_navigation_files"], "lnf_walk")
  /\ prev' = [op |-> [name |-> "none"], res |-> NoResult]

ListNavigationFilesWalk ==
  /\ pc = "lnf_walk"
  /\ Finish(ListNavigationResult(WalkDirectory(fs)))

(***************************************************************************)
(* list_target_folder_files(file_extension)                                *)
(***************************************************************************)
LowerChar(c) ==
  IF c = "M" THEN "m" ELSE IF c = "D" THEN "d" ELSE IF c = "T" THEN "t"
  ELSE IF c = "X" THEN "x" ELSE IF c = "A" THEN "a" ELSE IF c = "C" THEN "c"
  ELSE IF c = "L" THEN "l" ELSE IF c = "U" THEN "u" ELSE IF c = "E" THEN "e"
  ELSE c

Lower(w) == [i \in 1..Len(w) |-> LowerChar(w[i])]

\* pathlib's suffix: from the last dot, unless the name starts or ends with it
Suffix(name) ==
  LET dots == {i \in 1..Len(name) : name[i] = "."} IN
  IF dots = {} THEN <<>>
  ELSE LET j == CHOOSE i \in dots : \A k \in dots : k <= i IN
       IF 1 < j /\ j < Len(name) THEN SubSeq(name, j, Len(name)) ELSE <<>>

\* datetime.fromtimestamp(t).strftime("%Y-%m-%d %H:%M:%S"): whole seconds
FormatTime(t) == t \div TicksPerSecond

StatOf(f, p) ==
  LET n == Lookup(f, p) IN
  IF n.kind = "none"
  THEN [ok |-> FALSE, exc |-> "FileNotFoundError",
        msg |-> Msg("[Errno 2] No such file or directory", {p})]
  ELSE IF n.kind = "dir" THEN [ok |-> TRUE, st_size |-> 0, st_mtime |-> 0]
  ELSE [ok |-> TRUE, st_size |-> Len(n.bytes), st_mtime |-> n.mtime]

\* `await anyio.Path(p).iterdir()`: iterdir() hands back an asynchronous
\* iterator, which is not awaitable, so the await raises TypeError
AwaitIterdir(f, p) ==
  [ok |-> FALSE, exc |-> "TypeError",
   msg |-> Msg("object can't be used in 'await' expression", {})]

MatchesExtension(name, file_extension) ==
  \/ file_extension = <<>>
  \/ Lower(Suffix(name)) = <<".">> \o Lower(file_extension)

FileEntry(f, p) ==
  LET st == StatOf(f, p) IN
  [name |-> p[Len(p)], path |-> p, size |-> st.st_size,
   modified |-> FormatTime(st.st_mtime), extension |-> Suffix(p[Len(p)])]

RECURSIVE FolderFiles(_, _, _)
FolderFiles(f, items, file_extension) ==
  IF items = <<>> THEN <<>>
  ELSE LET item == Head(items) IN
       (IF Lookup(f, item).kind = "file"
           /\ MatchesExtension(item[Len(item)], file_extension)
        THEN <<FileEntry(f, item)>> ELSE <<>>)
       \o FolderFiles(f, Tail(items), file_extension)

\* sorted(..., key=modified, reverse=True): stable, equal keys keep their order
RECURSIVE InsertByModified(_, _)
InsertByModified(sorted, x) ==
  IF sorted = <<>> THEN <<x>>
  ELSE IF Head(sorted).modified >= x.modified
       THEN <<Head(sorted)>> \o InsertByModified(Tail(sorted), x)
       ELSE <<x>> \o sorted

RECURSIVE SortedByModified(_)
SortedByModified(entries) ==
  IF entries = <<>> THEN <<>>
  ELSE InsertByModified(SortedByModified(SubSeq(entries, 1, Len(entries) - 1)),
                        entries[Len(entries)])

ListFilesFailed(exc, cause) ==
  ToolError(Msg("Failed to list target folder files", {}), exc, cause)

ListFilesFolderAbsent ==
  ListFilesFailed("ToolError",
                  Msg("Target folder not found", {TARGET_FOLDER_PATH}))

ListFilesResult(files, file_extension) ==
  [status |-> "ok", target_folder |-> TARGET_FOLDER,
   folder_path |-> TARGET_FOLDER_PATH, files |-> files,
   total_count |-> Len(files),
   filter |-> IF file_extension = <<>> THEN <<"all files">> ELSE file_extension]

Orders(S) ==
  {s \in [1..Cardinality(S) -> S] : \A x \in S : \E i \in DOMAIN s : s[i] = x}

ListTargetFolderFilesCall ==
  /\ \E e \in Extensions :
       Start([name |-> "list_target_folder_files", file_extension |-> e],
             "ltf_exists")
  /\ UNCHANGED prev

ListTargetFolderFilesExists ==
  /\ pc = "ltf_exists"
  /\ IF ~Exists(fs, TARGET_FOLDER_PATH)
     THEN Finish(ListFilesFolderAbsent)
     ELSE /\ pc' = "ltf_iterdir"
          /\ found' = TRUE
          /\ UNCHANGED <<fs, op, content, res, prev, parked>>

ListTargetFolderFilesIterdir ==
  /\ pc = "ltf_iterdir"
  /\ LET it == AwaitIterdir(fs, TARGET_FOLDER_PATH) IN
     IF ~it.ok
     THEN Finish(ListFilesFailed(it.exc, it.msg))
     ELSE \E items \in Orders(it.items) :
            Finish(ListFilesResult(
              SortedByModified(FolderFiles(fs, items, op.file_extension)),
              op.file_extension))

(***************************************************************************)
(* load_target_folder_file(filename)                                       *)
(***************************************************************************)
\* mutant: the filename is cut down to its last segment before the join
FilePathMutant(filename) == TARGET_FOLDER_PATH \o <<filename[Len(filename)]>>

FilePath(filename) == TARGET_FOLDER_PATH \o filename

LoadFileFailed(filename, exc, cause) ==
  ToolError(Msg("Failed to load file", {filename}), exc, cause)

\* mutant: the not-found message leaves out the target folder
LoadFileAbsentMutant(filename) ==
  LoadFileFailed(filename, "ToolError", Msg("File not found", {filename}))

LoadFileAbsent(filename) ==
  LoadFileFailed(filename, "ToolError",
                 Msg("File not found", {filename, <<TARGET_FOLDER>>}))

\* mutant: the size is taken from the text that was read, not from stat
LoadFileResultMutant(filename, text, st) ==
  [status |-> "ok", filename |-> filename, path |-> FilePath(filename),
   content |-> text, size |-> Len(text), modified |-> FormatTime(st.st_mtime),
   target_folder |-> TARGET_FOLDER, loaded |-> TRUE]

LoadFileResult(filename, text, st) ==
  [status |-> "ok", filename |-> filename, path |-> FilePath(filename),
   content |-> text, size |-> st.st_size, modified |-> FormatTime(st.st_mtime),
   target_folder |-> TARGET_FOLDER, loaded |-> TRUE]

LoadTargetFolderFileCall ==
  /\ \E n \in Filenames :
       Start([name |-> "load_target_folder_file", filename |-> n], "lff_exists")
  /\ prev' = [op |-> [name |-> "none"], res |-> NoResult]

LoadTargetFolderFileExists ==
  /\ pc = "lff_exists"
  /\ IF ~Exists(fs, FilePath(op.filename))
     THEN Finish(LoadFileAbsent(op.filename))
     ELSE /\ pc' = "lff_read"
          /\ found' = TRUE
          /\ UNCHANGED <<fs, op, content, res, prev, parked>>

LoadTargetFolderFileRead ==
  /\ pc = "lff_read"
  /\ LET r == ReadText(fs, FilePath(op.filename)) IN
     IF r.ok
     THEN /\ pc' = "lff_stat"
          /\ content' = r.text
          /\ UNCHANGED <<fs, op, found, res, prev, parked>>
     ELSE Finish(LoadFileFailed(op.filename, r.exc, r.msg))

LoadTargetFolderFileStat ==
  /\ pc = "lff_stat"
  /\ LET st == StatOf(fs, FilePath(op.filename)) IN
     IF st.ok
     THEN Finish(LoadFileResult(op.filename, content, st))
     ELSE Finish(LoadFileFailed(op.filename, st.exc, st.msg))

(***************************************************************************)
(* get_current_time: the call reads the clock and the process's timezone   *)
(* settings.  time.daylight is nonzero when the zone defines a daylight-   *)
(* saving time at all, whatever the date; isdst tells whether daylight     *)
(* saving is in effect at the instant of the call.                         *)
(***************************************************************************)
TZNAME == <<"STD", "DST">>

ClockReadings ==
  {[now |-> t, daylight |-> d, isdst |-> i] :
     t \in MTimes, d \in {0, 1}, i \in {0, 1}} \ 
  {[now |-> t, daylight |-> 0, isdst |-> 1] : t \in MTimes}

TimezoneName(clock) == TZNAME[clock.daylight + 1]

CurrentTimeResult(clock) ==
  [status |-> "ok", time |-> FormatTime(clock.now),
   timezone |-> TimezoneName(clock)]

GetCurrentTimeCall ==
  /\ \E c \in ClockReadings :
       Start([name |-> "get_current_time", clock |-> c], "gct_now")
  /\ prev' = [op |-> [name |-> "none"], res |-> NoResult]

GetCurrentTimeNow ==
  /\ pc = "gct_now"
  /\ Finish(CurrentTimeResult(op.clock))

(***************************************************************************)
(* The dispatcher hands the result to the caller.                          *)
(***************************************************************************)
Return ==
  /\ pc = "done"
  /\ pc' = "idle"
  /\ prev' = IF op.name = "load_target_folder_file"
             THEN [op |-> op, res |-> res]
             ELSE [op |-> [name |-> "none"], res |-> NoResult]
  /\ op' = [name |-> "none"]
  /\ res' = NoResult
  /\ found' = FALSE
  /\ content' = <<>>
  /\ UNCHANGED <<fs, parked>>

Next ==
  \/ LoadNavigationContextCall
  \/ LoadNavigationContextExists
  \/ LoadNavigationContextRead
  \/ LoadTargetFolderContextCall
  \/ LoadTargetFolderContextExists
  \/ LoadTargetFolderContextRead
  \/ DiscoverSubdirectoryNavigationCall
  \/ DiscoverSubdirectoryNavigationExistsDir
  \/ DiscoverSubdirectoryNavigationExistsMd
  \/ DiscoverSubdirectoryNavigationRead
  \/ ListNavigationFilesCall
  \/ ListNavigationFilesWalk
  \/ ListTargetFolderFilesCall
  \/ ListTargetFolderFilesExists
  \/ ListTargetFolderFilesIterdir
  \/ LoadTargetFolderFileCall
  \/ LoadTargetFolderFileExists
  \/ LoadTargetFolderFileRead
  \/ LoadTargetFolderFileStat
  \/ GetCurrentTimeCall
  \/ GetCurrentTimeNow
  \/ Return

Spec == Init /\ [][Next]_vars

(***************************************************************************)
(* Other programs sharing the vault: files appear and disappear between    *)
(* the steps of a call.                                                    *)
(***************************************************************************)
FileSlots == {VAULT_CLAUDE_MD, TARGET_CLAUDE_MD, FilePathA, SubClaudeMd}

ExternalDelete ==
  /\ \E p \in FileSlots :
       /\ fs[p].kind = "file"
       /\ fs' = [fs EXCEPT ![p] = NoNode]
  /\ prev' = [op |-> [name |-> "none"], res |-> NoResult]
  /\ UNCHANGED <<pc, op, found, content, res, parked>>

ExternalCreate ==
  /\ \E p \in FileSlots :
       /\ fs[p].kind = "none"
       /\ NodeAt(fs, Parent(p)).kind = "dir"
       /\ \E n \in {m \in NodesAt(p) : m.kind = "file"} :
            fs' = [fs EXCEPT ![p] = n]
  /\ prev' = [op |-> [name |-> "none"], res |-> NoResult]
  /\ UNCHANGED <<pc, op, found, content, res, parked>>

\* another program rewrites a note of the target folder in place: new bytes,
\* new modification time
ExternalWrite ==
  /\ \E p \in {FilePathA} :
       /\ fs[p].kind = "file"
       /\ \E n \in {m \in NodesAt(p) : m.kind = "file"} \ {fs[p]} :
            fs' = [fs EXCEPT ![p] = n]
  /\ prev' = [op |-> [name |-> "none"], res |-> NoResult]
  /\ UNCHANGED <<pc, op, found, content, res, parked>>

NextRace == Next \/ ExternalDelete \/ ExternalCreate \/ ExternalWrite

SpecRace == Init /\ [][NextRace]_vars

(***************************************************************************)
(* Two calls in flight on one event loop, no other program writing.  The   *)
(* loop may leave the running coroutine at any await and resume the other  *)
(* one; each coroutine keeps its own locals.                               *)
(***************************************************************************)
ConcFilesystems ==
  {MakeFs(DirNode(TRUE), vm, t, tm, a, sb, sm) :
     vm \in {NoNode, FileNode(<<"a">>, 0)},
     t \in {NoNode, DirNode(TRUE)},
     tm \in {NoNode, FileNode(<<"b", "CR", "LF">>, 0)},
     a \in {NoNode, FileNode(<<"a">>, MaxMtime), FileNode(<<"BAD">>, 0)},
     sb \in {NoNode, DirNode(TRUE)},
     sm \in {NoNode, FileNode(<<"a">>, 0)}}

InitConc ==
  /\ fs \in {f \in ConcFilesystems : WellFormed(f)}
  /\ pc = "idle"
  /\ op = [name |-> "none"]
  /\ found = FALSE
  /\ content = <<>>
  /\ res = NoResult
  /\ prev = [op |-> [name |-> "none"], res |-> NoResult]
  /\ parked = IdleContext

\* mutant: content is one module-level variable that both calls write
RestoredContentMutant == content

RestoredContent == parked.content

ContextSwitch ==
  /\ pc # "idle" \/ parked.pc # "idle"
  /\ parked' = [pc |-> pc, op |-> op, found |-> found, content |-> content,
                res |-> res]
  /\ pc' = parked.pc
  /\ op' = parked.op
  /\ found' = parked.found
  /\ content' = RestoredContent
  /\ res' = parked.res
  /\ prev' = [op |-> [name |-> "none"], res |-> NoResult]
  /\ UNCHANGED fs

NextConc == Next \/ ContextSwitch

SpecConc == InitConc /\ [][NextConc]_vars

(***************************************************************************)
(* The result of each tool when it runs from call to return with nothing   *)
(* else happening in between, on filesystem f.                             *)
(***************************************************************************)
AloneLoadNavigationContext(f) ==
  IF ~Exists(f, VAULT_CLAUDE_MD) THEN LoadNavigationContextAbsent
  ELSE LET r == ReadText(f, VAULT_CLAUDE_MD) IN
       IF r.ok THEN LoadNavigationContextLoaded(r.text)
       ELSE LoadNavigationContextFailed(r.exc, r.msg)

AloneLoadTargetFolderContext(f) ==
  IF ~Exists(f, TARGET_CLAUDE_MD) THEN LoadTargetFolderContextAbsent
  ELSE LET r == ReadText(f, TARGET_CLAUDE_MD) IN
       IF r.ok THEN LoadTargetFolderContextLoaded(r.text)
       ELSE LoadTargetFolderContextFailed(r.exc, r.msg)

AloneDiscoverSubdirectoryNavigation(f, subdirectory) ==
  IF ~Exists(f, SubdirPath(subdirectory))
  THEN DiscoverSubdirAbsent(subdirectory)
  ELSE IF ~Exists(f, ClaudeMdPath(subdirectory))
  THEN DiscoverMarkerAbsent(subdirectory)
  ELSE LET r == ReadText(f, ClaudeMdPath(subdirectory)) IN
       IF r.ok THEN DiscoverLoaded(subdirectory, r.text)
       ELSE DiscoverFailed(r.exc, r.msg)

AloneListNavigationFiles(f) == ListNavigationResult(WalkDirectory(f))

AloneListTargetFolderFiles(f, file_extension) ==
  IF ~Exists(f, TARGET_FOLDER_PATH) THEN ListFilesFolderAbsent
  ELSE LET it == AwaitIterdir(f, TARGET_FOLDER_PATH) IN
       IF ~it.ok THEN ListFilesFailed(it.exc, it.msg)
       ELSE ListFilesResult(
              SortedByModified(FolderFiles(f, SetToSeq(it.items), file_extension)),
              file_extension)

AloneLoadTargetFolderFile(f, filename) ==
  IF ~Exists(f, FilePath(filename)) THEN LoadFileAbsent(filename)
  ELSE LET r == ReadText(f, FilePath(filename)) IN
       IF ~r.ok THEN LoadFileFailed(filename, r.exc, r.msg)
       ELSE LET st == StatOf(f, FilePath(filename)) IN
            IF st.ok THEN LoadFileResult(filename, r.text, st)
            ELSE LoadFileFailed(filename, st.exc, st.msg)

Alone(o, f) ==
  IF o.name = "load_navigation_context" THEN AloneLoadNavigationContext(f)
  ELSE IF o.name = "load_target_folder_context"
  THEN AloneLoadTargetFolderContext(f)
  ELSE IF o.name = "discover_subdirectory_navigation"
  THEN AloneDiscoverSubdirectoryNavigation(f, o.subdirectory)
  ELSE IF o.name = "list_navigation_files" THEN AloneListNavigationFiles(f)
  ELSE IF o.name = "list_target_folder_files"
  THEN AloneListTargetFolderFiles(f, o.file_extension)
  ELSE IF o.name = "load_target_folder_file"
  THEN AloneLoadTargetFolderFile(f, o.filename)
  ELSE CurrentTimeResult(o.clock)

(***************************************************************************)
(* Vocabulary of the properties.                                           *)
(***************************************************************************)
Done(name) == pc = "done" /\ op.name = name

\* the error raised by a tool's own existence check
IsNotFoundError(r) == r.status = "error" /\ r.exc = "ToolError"

IsFile(f, p) == Lookup(f, p).kind = "file"
IsDir(f, p) == Lookup(f, p).kind = "dir"

\* the text of a file as text mode reads it
TextOf(f, p) == TranslateNewlines(Lookup(f, p).bytes)

Readable(f, p) == IsFile(f, p) /\ Decodable(Lookup(f, p).bytes)

(***************************************************************************)
(* C1: load_navigation_context signals the not-found error exactly when    *)
(* VAULT_CLAUDE_MD is absent, and every result it returns has loaded=true  *)
(* and the marker file's text as content.                                  *)
(***************************************************************************)
C1_VaultNavigation ==
  Done("load_navigation_context") =>
    /\ IsNotFoundError(res) <=> ~Exists(fs, VAULT_CLAUDE_MD)
    /\ res.status = "ok" =>
         /\ res.loaded = TRUE
         /\ IsFile(fs, VAULT_CLAUDE_MD)
         /\ res.content = TextOf(fs, VAULT_CLAUDE_MD)

C1_Witness ==
  /\ Done("load_navigation_context")
  /\ res.status = "ok"
  /\ res.content = <<"b", "LF">>

(***************************************************************************)
(* C2 as claimed: load_target_folder_context never signals an error        *)
(* because the marker file is missing, whatever other programs do to the   *)
(* file between the existence check and the read.                          *)
(***************************************************************************)
C2_NeverFailsOnMissingMarker ==
  Done("load_target_folder_context") =>
    ~(res.status = "error" /\ res.exc = "FileNotFoundError")

(***************************************************************************)
(* C2 as amended: a marker that is missing when the existence check runs   *)
(* gives loaded=false, empty content and a non-empty message; a marker     *)
(* that disappears between the check and the read gives an error.          *)
(***************************************************************************)
C2_MissingAtCheck ==
  [][/\ (pc = "ltc_exists" /\ pc' # "ltc_exists"
           /\ ~Exists(fs, TARGET_CLAUDE_MD)) =>
          /\ pc' = "done"
          /\ res'.status = "ok"
          /\ res'.loaded = FALSE
          /\ res'.content = <<>>
          /\ res'.message.text # ""
     /\ (pc = "ltc_read" /\ pc' # "ltc_read"
           /\ ~Exists(fs, TARGET_CLAUDE_MD)) =>
          /\ pc' = "done"
          /\ res'.status = "error"
          /\ res'.exc = "FileNotFoundError"]_vars

C2_Witness ==
  /\ Done("load_target_folder_context")
  /\ res.status = "ok"
  /\ res.loaded = FALSE
  /\ IsDir(fs, TARGET_FOLDER_PATH)

(***************************************************************************)
(* C3 as claimed: discover_subdirectory_navigation has exactly three       *)
(* outcomes: not-found error when the subdirectory is missing, loaded=false*)
(* when it has no CLAUDE.md, loaded=true with the file's text when it has. *)
(***************************************************************************)
C3_ThreeOutcomes ==
  Done("discover_subdirectory_navigation") =>
    LET s == op.subdirectory IN
    IF ~Exists(fs, SubdirPath(s)) THEN IsNotFoundError(res)
    ELSE /\ res.status = "ok"
         /\ res.path = ClaudeMdPath(s)
         /\ IF ~Exists(fs, ClaudeMdPath(s))
            THEN res.loaded = FALSE /\ res.content = <<>>
            ELSE /\ res.loaded = TRUE
                 /\ IsFile(fs, ClaudeMdPath(s))
                 /\ res.content = TextOf(fs, ClaudeMdPath(s))

(***************************************************************************)
(* C3 as amended: a fourth outcome exists.  When CLAUDE.md exists but      *)
(* cannot be read as UTF-8 text (it is a directory, or holds invalid       *)
(* bytes) the call signals an error that is not the not-found error; the   *)
(* other three outcomes are as claimed.                                    *)
(***************************************************************************)
C3_FourOutcomes ==
  Done("discover_subdirectory_navigation") =>
    LET s == op.subdirectory IN
    IF ~Exists(fs, SubdirPath(s)) THEN IsNotFoundError(res)
    ELSE IF ~Exists(fs, ClaudeMdPath(s))
    THEN /\ res.status = "ok"
         /\ res.path = ClaudeMdPath(s)
         /\ res.loaded = FALSE
         /\ res.content = <<>>
    ELSE IF Readable(fs, ClaudeMdPath(s))
    THEN /\ res.status = "ok"
         /\ res.path = ClaudeMdPath(s)
         /\ res.loaded = TRUE
         /\ res.content = TextOf(fs, ClaudeMdPath(s))
    ELSE /\ res.status = "error"
         /\ res.exc \in {"IsADirectoryError", "UnicodeDecodeError"}

C3_Witness ==
  /\ Done("discover_subdirectory_navigation")
  /\ op.subdirectory = <<TARGET_FOLDER, SubName>>
  /\ res.status = "error"
  /\ res.exc = "UnicodeDecodeError"

(***************************************************************************)
(* The directories of the vault and the entries a complete listing of the  *)
(* navigation files holds.                                                 *)
(***************************************************************************)
IsPrefix(a, b) == Len(a) <= Len(b) /\ SubSeq(b, 1, Len(a)) = a

VaultDirs(f) == {d \in DOMAIN f : IsPrefix(VAULT_PATH, d) /\ f[d].kind = "dir"}

HasMarkerFile(f, d) == IsFile(f, d \o <<CLAUDE_MD_NAME>>)

NavigationEntry(d) ==
  IF d = VAULT_PATH THEN ROOT_LABEL ELSE Relpath(d, VAULT_PATH)

Range(q) == {q[i] : i \in DOMAIN q}

NoDuplicates(q) == \A i, j \in DOMAIN q : q[i] = q[j] => i = j

\* scandir fails on a directory the walk comes to
TraversalFails(f) == \E d \in VaultDirs(f) : ~f[d].ok

(***************************************************************************)
(* C4 as claimed: for every directory tree, list_navigation_files returns  *)
(* the root label exactly when the vault root holds a CLAUDE.md file, one  *)
(* entry for each directory that holds one, nothing else, no duplicates,   *)
(* and total_count is the length of the list.                              *)
(***************************************************************************)
C4_ListsEveryMarkedDirectory ==
  Done("list_navigation_files") =>
    /\ res.status = "ok"
    /\ Range(res.available_navigation) =
         {NavigationEntry(d) : d \in {x \in VaultDirs(fs) : HasMarkerFile(fs, x)}}
    /\ NoDuplicates(res.available_navigation)
    /\ res.total_count = Len(res.available_navigation)

(***************************************************************************)
(* What holds of the listing: it is complete whenever every directory of   *)
(* the vault can be listed.                                                *)
(***************************************************************************)
ListsEveryMarkedDirectoryWhenListable ==
  TraversalFails(fs) \/ C4_ListsEveryMarkedDirectory

(***************************************************************************)
(* C5 as claimed: list_navigation_files signals an error exactly when the  *)
(* traversal hits an I/O failure; it never returns a list cut short by one.*)
(***************************************************************************)
C5_ErrorIffTraversalFails ==
  Done("list_navigation_files") =>
    (res.status = "error" <=> TraversalFails(fs))

(***************************************************************************)
(* The regular files directly inside the target folder.                    *)
(***************************************************************************)
TargetFiles(f) ==
  {q \in ChildPaths(f, TARGET_FOLDER_PATH) : f[q].kind = "file"}

Matching(f, file_extension) ==
  {q \in TargetFiles(f) :
     Lower(Suffix(q[Len(q)])) = <<".">> \o Lower(file_extension)}

ListedPaths(r) == {r.files[i].path : i \in DOMAIN r.files}

(***************************************************************************)
(* C6 as claimed: when the target folder exists, list_target_folder_files  *)
(* with no filter returns one entry per regular file of the folder, in     *)
(* descending order of modification time.                                  *)
(***************************************************************************)
C6_ListsFilesNewestFirst ==
  (Done("list_target_folder_files") /\ op.file_extension = <<>>
     /\ IsDir(fs, TARGET_FOLDER_PATH)) =>
    /\ res.status = "ok"
    /\ Len(res.files) = Cardinality(TargetFiles(fs))
    /\ res.total_count = Cardinality(TargetFiles(fs))
    /\ \A i \in 1..(Len(res.files) - 1) :
         fs[res.files[i].path].mtime >= fs[res.files[i + 1].path].mtime

(***************************************************************************)
(* C7 as claimed: list_target_folder_files(F) returns exactly the regular  *)
(* files whose lower-cased extension is "." + lower-cased F, and with no   *)
(* filter it returns the union of what the filters return.                 *)
(***************************************************************************)
C7_FilterSelectsByExtension ==
  (Done("list_target_folder_files") /\ IsDir(fs, TARGET_FOLDER_PATH)) =>
    /\ res.status = "ok"
    /\ op.file_extension # <<>> =>
         ListedPaths(res) = Matching(fs, op.file_extension)
    /\ op.file_extension = <<>> =>
         ListedPaths(res) =
           UNION {Matching(fs, e) : e \in Extensions \ {<<>>}}

(***************************************************************************)
(* C8 as claimed: without I/O failures, list_target_folder_files signals   *)
(* an error exactly when the target folder does not exist; otherwise it    *)
(* succeeds for every filter and echoes the filter, or "all files".        *)
(***************************************************************************)
C8_ErrorIffFolderMissing ==
  (Done("list_target_folder_files")
     /\ ~(IsDir(fs, TARGET_FOLDER_PATH) /\ ~fs[TARGET_FOLDER_PATH].ok)) =>
    /\ res.status = "error" <=> ~IsDir(fs, TARGET_FOLDER_PATH)
    /\ res.status = "ok" =>
         /\ res.total_count = Len(res.files)
         /\ res.filter = IF op.file_extension = <<>> THEN <<"all files">>
                         ELSE op.file_extension

(***************************************************************************)
(* C9 as claimed: load_target_folder_file signals the not-found error,     *)
(* naming the filename and the target folder, when the path is not an      *)
(* existing file, and otherwise returns loaded=true, the filename and the  *)
(* file's text.                                                            *)
(***************************************************************************)
C9_FileOrNotFound ==
  Done("load_target_folder_file") =>
    LET n == op.filename IN
    IF IsFile(fs, FilePath(n))
    THEN /\ res.status = "ok"
         /\ res.loaded = TRUE
         /\ res.filename = n
         /\ res.content = TextOf(fs, FilePath(n))
    ELSE /\ IsNotFoundError(res)
         /\ {n, <<TARGET_FOLDER>>} \subseteq res.cause.mentions

(***************************************************************************)
(* C9 as amended: the not-found error, naming the filename and the target  *)
(* folder, is signalled when the path does not exist; a path that exists   *)
(* as a file readable as UTF-8 gives loaded=true, the filename and the     *)
(* file's text; a path that exists but is a directory or holds invalid     *)
(* UTF-8 gives an error that names the filename and is not the not-found   *)
(* error.                                                                  *)
(***************************************************************************)
C9_FileReadableOrError ==
  Done("load_target_folder_file") =>
    LET n == op.filename IN
    IF ~Exists(fs, FilePath(n))
    THEN /\ IsNotFoundError(res)
         /\ {n, <<TARGET_FOLDER>>} \subseteq res.cause.mentions
    ELSE IF Readable(fs, FilePath(n))
    THEN /\ res.status = "ok"
         /\ res.loaded = TRUE
         /\ res.filename = n
         /\ res.content = TextOf(fs, FilePath(n))
    ELSE /\ res.status = "error"
         /\ res.exc \in {"IsADirectoryError", "UnicodeDecodeError"}
         /\ n \in res.outer.mentions

C9_Witness ==
  /\ Done("load_target_folder_file")
  /\ op.filename = <<FileA>>
  /\ res.status = "ok"
  /\ res.content = <<"b", "LF">>

(***************************************************************************)
(* C10 as claimed: after a successful load_target_folder_file(name) of a   *)
(* file of the target folder, the listing that follows has an entry for    *)
(* that name with the same size and the same modified value.               *)
(***************************************************************************)
C10_ListingAgreesWithLoad ==
  (Done("list_target_folder_files") /\ op.file_extension = <<>>
     /\ prev.op.name = "load_target_folder_file"
     /\ prev.res.status = "ok"
     /\ Len(prev.op.filename) = 1) =>
    /\ res.status = "ok"
    /\ \E i \in DOMAIN res.files :
         /\ res.files[i].name = prev.op.filename[1]
         /\ res.files[i].size = prev.res.size
         /\ res.files[i].modified = prev.res.modified

(***************************************************************************)
(* C11 as claimed: every call ends in a structured result or in one        *)
(* ToolError with a descriptive message; a failure inside the call is      *)
(* never turned into a successful result, and every error message names    *)
(* the path or filename concerned and carries the original cause.          *)
(***************************************************************************)
C11_UniformErrors ==
  pc = "done" =>
    /\ res.status \in {"ok", "error"}
    /\ res.status = "error" =>
         /\ res.outer.text # ""
         /\ res.cause.text # ""
         /\ res.outer.mentions \cup res.cause.mentions # {}
    /\ (op.name = "list_navigation_files" /\ TraversalFails(fs)) =>
         res.status = "error"

(***************************************************************************)
(* C15 as claimed: a successful load_target_folder_file result is an       *)
(* atomic snapshot: there is one version of the file whose text is the     *)
(* returned content, whose byte length is the returned size and whose      *)
(* modification time is the returned modified value, whatever writes       *)
(* happen between the read and the stat.                                   *)
(***************************************************************************)
DescribesVersion(r, n) ==
  /\ Decodable(n.bytes)
  /\ r.content = TranslateNewlines(n.bytes)
  /\ r.size = Len(n.bytes)
  /\ r.modified = FormatTime(n.mtime)

C15_AtomicSnapshot ==
  (Done("load_target_folder_file") /\ res.status = "ok") =>
    \E n \in FileNodes : DescribesVersion(res, n)

(***************************************************************************)
(* C15 as amended: the result is assembled from two separate looks at the  *)
(* file.  The content is the text of the file as it is at the read step;   *)
(* size and modified are the byte count and modification time of whatever  *)
(* file is at the path at the later stat step.  The result describes one   *)
(* version of the file only when the file at the stat step is still the    *)
(* one that was read.                                                      *)
(***************************************************************************)
C15_ReadThenStat ==
  [][op.name = "load_target_folder_file" =>
       LET p == TARGET_FOLDER_PATH \o op.filename IN
       /\ (pc = "lff_read" /\ pc' = "lff_stat") => content' = TextOf(fs, p)
       /\ (pc = "lff_stat" /\ pc' = "done" /\ res'.status = "ok"
           /\ IsFile(fs, p)) =>
            /\ res'.content = content
            /\ res'.size = Len(Lookup(fs, p).bytes)
            /\ res'.modified = FormatTime(Lookup(fs, p).mtime)
            /\ (Readable(fs, p) /\ content = TextOf(fs, p)) =>
                 DescribesVersion(res', Lookup(fs, p))]_vars

C15_Witness ==
  /\ Done("load_target_folder_file")
  /\ op.filename = <<FileA>>
  /\ res.status = "ok"
  /\ res.content = <<"a">>
  /\ res.size = 3
  /\ IsFile(fs, FilePathA)
  /\ Lookup(fs, FilePathA).bytes = <<"b", "CR", "LF">>

(***************************************************************************)
(* C13: no step of any tool changes the filesystem, and with two calls in  *)
(* flight on the event loop, interleaved at their awaits in any order,     *)
(* each call that completes returns exactly what it returns when it runs   *)
(* alone on the same filesystem.                                           *)
(***************************************************************************)
C13_ReadOnlyAndIndependent ==
  [][/\ fs' = fs
     /\ pc' = "done" => res' = Alone(op', fs')
     /\ parked'.pc = "done" => parked'.res = Alone(parked'.op, fs')]_vars

C13_Witness ==
  /\ Done("load_target_folder_file")
  /\ res.status = "ok"
  /\ parked.pc = "lff_stat"
  /\ parked.op.filename # op.filename
  /\ parked.content # res.content

(***************************************************************************)
(* C14 as claimed: a filename with a parent-directory segment that         *)
(* resolves to an existing file outside the target folder is loaded:       *)
(* loaded=true and the outside file's content, never an error.             *)
(***************************************************************************)
HasParentSegment(filename) == DotDot \in Range(filename)

C14_TraversalLoadsOutsideFile ==
  (/\ Done("load_target_folder_file")
   /\ HasParentSegment(op.filename)
   /\ IsFile(fs, TARGET_FOLDER_PATH \o op.filename)) =>
    /\ res.status = "ok"
    /\ res.loaded = TRUE
    /\ res.content = TextOf(fs, TARGET_FOLDER_PATH \o op.filename)

(***************************************************************************)
(* C14 as amended: the filename is joined onto the target folder path      *)
(* unchecked.  When it has a parent-directory segment and resolves to a    *)
(* file outside the target folder that is valid UTF-8, the call gives      *)
(* loaded=true, the path as joined and that outside file's text; when the  *)
(* outside file is not valid UTF-8 the call fails with the decoding error, *)
(* as it does for a file inside the folder.  It never answers with the     *)
(* not-found error for an outside path that exists.                        *)
(***************************************************************************)
C14_TraversalLoadsReadableOutsideFile ==
  (/\ Done("load_target_folder_file")
   /\ HasParentSegment(op.filename)
   /\ IsFile(fs, TARGET_FOLDER_PATH \o op.filename)) =>
    LET outside == TARGET_FOLDER_PATH \o op.filename IN
    IF Readable(fs, outside)
    THEN /\ res.status = "ok"
         /\ res.loaded = TRUE
         /\ res.path = outside
         /\ res.content = TextOf(fs, outside)
    ELSE /\ res.status = "error"
         /\ res.exc = "UnicodeDecodeError"

C14_Witness ==
  /\ Done("load_target_folder_file")
  /\ op.filename = <<DotDot, CLAUDE_MD_NAME>>
  /\ ~Exists(fs, TARGET_CLAUDE_MD)
  /\ res.status = "ok"
  /\ res.loaded = TRUE
  /\ res.content = TextOf(fs, VAULT_CLAUDE_MD)

(***************************************************************************)
(* C12 as claimed: in a zone that defines daylight saving, get_current_time*)
(* returns the daylight-saving name exactly when daylight saving is in     *)
(* effect at the instant of the call, and the standard name otherwise.     *)
(***************************************************************************)
C12_TimezoneFollowsDst ==
  (Done("get_current_time") /\ op.clock.daylight = 1) =>
    /\ res.status = "ok"
    /\ res.timezone = IF op.clock.isdst = 1 THEN TZNAME[2] ELSE TZNAME[1]

====
